---- MODULE Spec2Model ----
(***************************************************************************)
(* Model of the trade_logo_verifier image pipeline:                        *)
(*   - main.py  : the operator loop, detect_blobs (edge filter, size       *)
(*                outlier colouring) and the found/expected report;        *)
(*   - Focus.py : is_camera_in_focus and the wait_for_focus driver.        *)
(*                                                                         *)
(* Arithmetic.  OpenCV reports a keypoint's centre and size as floats.     *)
(* They are kept here in fixed point with Scale sub-pixels per pixel, so   *)
(* that int(...) truncation in the code is a real operation (\div Scale).  *)
(* np.mean / np.std are modelled exactly, as rationals: with n radii of    *)
(* sum S and sum of squares Q, mean = S/n and std^2 = (n*Q - S^2)/n^2, and *)
(* every comparison of the code is cross-multiplied into integers.         *)
(* cv2 itself (the detector, the Laplacian) is an external library: a      *)
(* frame carries what the library would report for it.                     *)
(***************************************************************************)
EXTENDS Integers, Sequences, FiniteSets, TLC

VARIABLES
    \* ---- main.py
    config,         \* the dict returned by load_tray_config
    expected_count, \* main: config.get('expected_count', 0)
    cap,            \* main: cap is open
    pc,             \* main: "idle" | "loop" | "done" | "crashed"
    frame,          \* main: the frame last read, [w, h, scene]
    scan,           \* last detect_blobs call: "none" | "ok" | "TypeError"
    params,         \* detect_blobs: the SimpleBlobDetector_Params built, <<>> if none
    keypoints,      \* detect_blobs: detector.detect(thresh)
    blobs,          \* detect_blobs: the returned list
    circles,        \* detect_blobs: circles drawn on the 'Blobs' image
    found_count,    \* main: len(blobs)
    diff,           \* main: expected_count - found_count
    large,          \* main: blobs reported as "Large blob ... possible overlap"
    \* ---- Focus.py
    fpc,            \* wait_for_focus: "idle" | "start" | "read" | "waitkey" | "done"
    threshold,      \* wait_for_focus: the threshold argument
    camera,         \* wait_for_focus: camera is held (opened, not released)
    pulled,         \* frames as camera.read() delivered them, in order
    cur,            \* the frame object of the current iteration, <<>> if none
    result,         \* the value wait_for_focus returned, None if none
    exitPath,       \* how wait_for_focus ended: "" | "focused" | "exhausted" | "cancelled"
    \* ---- the display
    windows         \* names of the cv2 windows that are open

mainVars  == <<config, expected_count, cap, pc, frame, scan, params, keypoints,
               blobs, circles, found_count, diff, large>>
focusVars == <<fpc, threshold, camera, pulled, cur, result, exitPath>>
vars      == <<mainVars, focusVars, windows>>

\* ------------------------------------------------------------------ bounds
MaxKeypoints == 7   \* most blob regions in one scene
Scale == 2          \* sub-pixels per pixel of the fixed-point coordinates
MaxFrames == 4      \* most frames the camera delivers to wait_for_focus

\* ------------------------------------------------------- program constants
DefaultMargin == 10
DefaultMaxArea == 100000
DefaultExpectedCount == 0
DefaultThreshold == 9
DetectorMinArea == 25
ESC == 27
SPACE == 32
NoKey == 255

None == <<>>

\* ------------------------------------------------------------------ helpers
RECURSIVE Sum(_)
Sum(s) == IF s = <<>> THEN 0 ELSE Head(s) + Sum(Tail(s))

\* dict.get(key, default)
Get(d, key, default) == IF key \in DOMAIN d THEN d[key] ELSE default

\* ------------------------------------------------------------------ inputs
\* The blob regions a tray image may hold.  pt and size are what the detector
\* reports for the region, in sub-pixels (pixel value * Scale); area in pixels^2.
Px(n) == n * Scale

Regions == <<
    [pt |-> <<Px(30),  Px(30)>>,  size |-> Px(20), area |-> 314],
    [pt |-> <<Px(30),  Px(170)>>, size |-> Px(20), area |-> 314],
    [pt |-> <<Px(170), Px(30)>>,  size |-> Px(20), area |-> 314],
    [pt |-> <<Px(170), Px(170)>>, size |-> Px(20), area |-> 314],
    [pt |-> <<Px(100), Px(100)>>, size |-> Px(80), area |-> 5026],
    [pt |-> <<Px(100), Px(30)>>,  size |-> Px(20), area |-> 314],
    \* radius 40, bounding circle touches x = 0
    [pt |-> <<Px(40),  Px(100)>>, size |-> Px(80), area |-> 5026],
    \* fractional centre and size: x = 185 - 1/Scale, radius = 11 - 1/(2*Scale)
    [pt |-> <<Px(185) - 1, Px(100)>>, size |-> Px(22) - 1, area |-> 363],
    \* same fractional size, well inside the frame
    [pt |-> <<Px(100), Px(60)>>,  size |-> Px(22) - 1, area |-> 363] >>

Scenes == {s \in SUBSET (1..Len(Regions)) : Cardinality(s) <= MaxKeypoints}

FrameSizes == {<<200, 200>>, <<160, 200>>}     \* <<w, h>>

ConfigKeys == {"blob_margin", "blob_min_area", "blob_max_area", "expected_count"}

FullConfigs == [blob_margin : {5}, blob_min_area : {100, 400},
                blob_max_area : {1000}, expected_count : {6}]

\* every tray profile: any of the keys may be absent from the JSON object
ConfigSet == {[k \in K |-> f[k]] : f \in FullConfigs, K \in SUBSET ConfigKeys}

Keys == {ESC, SPACE, NoKey}

\* ------------------------------------------------------- main.py: detect_blobs
\* detector.detect(thresh): one keypoint per region whose area the params admit
\* (SimpleBlobDetector drops area < minArea and area >= maxArea).
Detect(scene, p) ==
    LET F[i \in 0..Len(Regions)] ==
            IF i = 0 THEN <<>>
            ELSE IF /\ i \in scene
                    /\ Regions[i].area >= p.minArea
                    /\ Regions[i].area < p.maxArea
                 THEN Append(F[i-1], [pt |-> Regions[i].pt, size |-> Regions[i].size])
                 ELSE F[i-1]
    IN  F[Len(Regions)]

\* radii = [kp.size / 2 for kp in keypoints], each in units of 1/(2*Scale) pixel
\* (kp.size / 2 pixels = kp.size sub-pixels / (2*Scale)).
RadiusUnit == 2 * Scale
Radii(kps) == [i \in 1..Len(kps) |-> kps[i].size]

\* x, y = int(kp.pt[0]), int(kp.pt[1]);  r = int(kp.size / 2)
IntX(kp) == kp.pt[1] \div Scale
IntY(kp) == kp.pt[2] \div Scale
IntR(kp) == kp.size \div RadiusUnit

\* np.mean(radii) = MeanNum / N   and   np.std(radii)^2 = VarNum / N^2
\* (both 0 for the empty list: N = 0 makes MeanNum = VarNum = 0).
MeanNum(radii) == Sum(radii)
VarNum(radii) ==
    Len(radii) * Sum([i \in 1..Len(radii) |-> radii[i] * radii[i]])
        - Sum(radii) * Sum(radii)

\* std_radius > 0
StdPositive(radii) == VarNum(radii) > 0

\* abs(r - mean_radius) > 2 * std_radius, both sides multiplied by
\* N * RadiusUnit and squared (both sides are >= 0)
FarFromMean(r, radii) ==
    LET d == Len(radii) * RadiusUnit * r - MeanNum(radii)
    IN  d * d > 4 * VarNum(radii)

IsSizeOutlierAtLeast(r, radii) ==
    /\ StdPositive(radii)
    /\ LET d == Len(radii) * RadiusUnit * r - MeanNum(radii)
       IN  d * d >= 4 * VarNum(radii)

IsSizeOutlierUnguarded(r, radii) == FarFromMean(r, radii)

\* the condition of line 76
IsSizeOutlier(r, radii) == StdPositive(radii) /\ FarFromMean(r, radii)

\* the edge filter of lines 73-74
PassesEdge(kp, w, h, margin) ==
    /\ IntX(kp) - IntR(kp) > margin
    /\ IntX(kp) + IntR(kp) < w - margin
    /\ IntY(kp) - IntR(kp) > margin
    /\ IntY(kp) + IntR(kp) < h - margin

Color(r, radii) == IF IsSizeOutlier(r, radii) THEN "red" ELSE "green"

\* the loop of lines 69-83 over the keypoints: the blobs appended and the
\* circles drawn, in keypoint order
BlobLoop(kps, w, h, margin) ==
    LET radii == Radii(kps)
        F[i \in 0..Len(kps)] ==
            IF i = 0 THEN [blobs |-> <<>>, circles |-> <<>>]
            ELSE LET prev == F[i-1]
                 IN  IF PassesEdge(kps[i], w, h, margin)
                     THEN [blobs   |-> Append(prev.blobs,
                                              [pt |-> kps[i].pt, size |-> kps[i].size]),
                           circles |-> Append(prev.circles,
                                              [x |-> IntX(kps[i]), y |-> IntY(kps[i]),
                                               r |-> IntR(kps[i]),
                                               color |-> Color(IntR(kps[i]), radii)])]
                     ELSE prev
    IN  F[Len(kps)]

\* lines 39-41
Margin(cfg)  == Get(cfg, "blob_margin", DefaultMargin)
MaxArea(cfg) == Get(cfg, "blob_max_area", DefaultMaxArea)
MissingMinArea(cfg) == "blob_min_area" \notin DOMAIN cfg

\* ------------------------------------------------------------- main.py: main
DifferenceReversed(expected, found) == found - expected

\* line 109
Difference(expected, found) == expected - found

\* lines 112-115: b['size'] > avg_size * 1.5, avg_size = sum of sizes / len
LargeBlobs(bs) ==
    LET total == Sum([i \in 1..Len(bs) |-> bs[i].size])
        F[i \in 0..Len(bs)] ==
            IF i = 0 THEN <<>>
            ELSE IF 2 * Len(bs) * bs[i].size > 3 * total
                 THEN Append(F[i-1], bs[i]) ELSE F[i-1]
    IN  F[Len(bs)]

MainWindows == {"Tray View", "Thresholded Image", "Blobs"}

FocusIdle ==
    /\ fpc = "idle" /\ threshold = DefaultThreshold /\ camera = FALSE
    /\ pulled = <<>> /\ cur = None /\ result = None /\ exitPath = ""

\* main, lines 93-96: config loaded, expected_count read, camera opened.
\* The camera looks at one tray: every read delivers the frame of that scene.
Init ==
    /\ config \in ConfigSet
    /\ expected_count = Get(config, "expected_count", DefaultExpectedCount)
    /\ cap = TRUE
    /\ pc = "loop"
    /\ \E wh \in FrameSizes, s \in Scenes : frame = [w |-> wh[1], h |-> wh[2], scene |-> s]
    /\ scan = "none" /\ params = None /\ keypoints = <<>>
    /\ blobs = <<>> /\ circles = <<>> /\ found_count = 0 /\ diff = 0 /\ large = <<>>
    /\ windows = {}
    /\ FocusIdle

\* lines 98-101 and 117-118: cap.read() fails
CameraError ==
    /\ pc = "loop"
    /\ pc' = "done" /\ cap' = FALSE /\ windows' = {}
    /\ UNCHANGED <<config, expected_count, frame, scan, params, keypoints, blobs,
                   circles, found_count, diff, large, focusVars>>

\* lines 98-105 with key == 27, then 117-118
PressEsc ==
    /\ pc = "loop"
    /\ pc' = "done" /\ cap' = FALSE /\ windows' = {}
    /\ UNCHANGED <<config, expected_count, frame, scan, params, keypoints, blobs,
                   circles, found_count, diff, large, focusVars>>

\* lines 98-106 with a key that is neither ESC nor SPACE (or no key)
NoScan ==
    /\ pc = "loop"
    /\ \E key \in Keys \ {ESC, SPACE} : windows' = windows \cup {"Tray View"}
    /\ UNCHANGED <<config, expected_count, cap, pc, frame, scan, params, keypoints,
                   blobs, circles, found_count, diff, large, focusVars>>

\* The rest of a scan once the detector parameters p are set: lines 59-85 of
\* detect_blobs and lines 108-115 of main.
FinishScan(p) ==
    LET kps == Detect(frame.scene, p)
        out == BlobLoop(kps, frame.w, frame.h, Margin(config))
    IN  /\ params' = <<p>>
        /\ keypoints' = kps
        /\ blobs' = out.blobs
        /\ circles' = out.circles
        /\ found_count' = Len(out.blobs)
        /\ diff' = Difference(expected_count, Len(out.blobs))
        /\ large' = LargeBlobs(out.blobs)
        /\ scan' = "ok"
        /\ windows' = windows \cup MainWindows
        /\ UNCHANGED <<pc, cap>>

\* lines 55: params.minArea = None.  What the cv2 binding does with None is the
\* library's choice: it raises TypeError, or it accepts None and leaves the
\* detector's own default in place.
AbortScan ==
    /\ scan' = "TypeError" /\ pc' = "crashed"
    /\ params' = None
    /\ windows' = windows \cup {"Tray View", "Thresholded Image"}
    /\ UNCHANGED <<cap, keypoints, blobs, circles, found_count, diff, large>>

\* lines 98-115 with key == 32: detect_blobs(frame, config) and the report
Scan ==
    /\ pc = "loop"
    /\ IF MissingMinArea(config)
       THEN \/ AbortScan
            \/ FinishScan([minArea |-> DetectorMinArea, maxArea |-> MaxArea(config)])
       ELSE FinishScan([minArea |-> config["blob_min_area"], maxArea |-> MaxArea(config)])
    /\ UNCHANGED <<config, expected_count, frame, focusVars>>

Next == CameraError \/ PressEsc \/ NoScan \/ Scan

Spec == Init /\ [][Next]_vars

\* ------------------------------------------------------------------ Focus.py
\* A frame as camera.read() delivers it: its place in the stream, the variance
\* of its Laplacian (what cv2.Laplacian(gray, CV_64F).var() yields for its
\* pixels) and the text drawn over its pixels, "" for none.
Laps == {0, 9, 10, 25}
Thresholds == {DefaultThreshold, 20}

SourceFrame(n, lap) == [id |-> n, lap |-> lap, overlay |-> ""]

InFocusAtLeast(image, thr) == [in_focus |-> image.lap >= thr, measure |-> image.lap]

\* is_camera_in_focus(image, threshold), lines 28-30
is_camera_in_focus(image, thr) == [in_focus |-> image.lap > thr, measure |-> image.lap]

\* line 44
Status(in_focus) == IF in_focus THEN "In Focus" ELSE "Out of Focus"

\* cv2.putText(frame, ...), lines 46-47: draws on the frame's own pixels
PutText(image, text) == [image EXCEPT !.overlay = text]

MainIdle ==
    /\ config = [k \in {} |-> 0] /\ expected_count = DefaultExpectedCount
    /\ cap = FALSE /\ pc = "idle"
    /\ frame = [w |-> 0, h |-> 0, scene |-> {}]
    /\ scan = "none" /\ params = None /\ keypoints = <<>>
    /\ blobs = <<>> /\ circles = <<>> /\ found_count = 0 /\ diff = 0 /\ large = <<>>

\* a call wait_for_focus(camera_index, threshold) about to run
FocusInit ==
    /\ fpc = "start" /\ threshold \in Thresholds /\ camera = FALSE
    /\ pulled = <<>> /\ cur = None /\ result = None /\ exitPath = ""
    /\ windows = {}
    /\ MainIdle

\* line 37
OpenCamera ==
    /\ fpc = "start"
    /\ camera' = TRUE /\ fpc' = "read"
    /\ UNCHANGED <<threshold, pulled, cur, result, exitPath, windows, mainVars>>

\* what wait_for_focus returns when the read fails: break, then line 57
NoFrameResult == None

\* lines 39-42 and 57: ret is False; break, return None.  This exit calls
\* neither camera.release() nor cv2.destroyWindow: the window stays as it is,
\* and the camera stays held unless the runtime finalises the VideoCapture
\* object when the local goes out of scope (reference counting does, a
\* deferred collector does not), so both outcomes are possible.
ReadFails ==
    /\ fpc = "read"
    /\ result' = NoFrameResult /\ exitPath' = "exhausted" /\ fpc' = "done"
    /\ camera' \in {camera, FALSE}
    /\ UNCHANGED <<threshold, pulled, cur, windows, mainVars>>

\* lines 39-52: a frame is read, scored, annotated and shown; returned if in focus
ReadFrame ==
    /\ fpc = "read"
    /\ Len(pulled) < MaxFrames
    /\ \E lap \in Laps :
        LET image   == SourceFrame(Len(pulled) + 1, lap)
            verdict == is_camera_in_focus(image, threshold)
            drawn   == PutText(image, Status(verdict.in_focus))
        IN  /\ pulled' = Append(pulled, image)
            /\ cur' = <<drawn>>
            /\ IF verdict.in_focus
               THEN /\ camera' = FALSE
                    /\ windows' = windows \ {"Camera Focus"}
                    /\ result' = <<drawn>>
                    /\ exitPath' = "focused"
                    /\ fpc' = "done"
               ELSE /\ windows' = windows \cup {"Camera Focus"}
                    /\ fpc' = "waitkey"
                    /\ UNCHANGED <<camera, result, exitPath>>
    /\ UNCHANGED <<threshold, mainVars>>

\* lines 53-57: cv2.waitKey(50) & 0xFF == 27 releases, breaks and returns None
WaitKey ==
    /\ fpc = "waitkey"
    /\ \E key \in Keys :
        IF key = ESC
        THEN /\ camera' = FALSE
             /\ windows' = windows \ {"Camera Focus"}
             /\ result' = None /\ exitPath' = "cancelled" /\ fpc' = "done"
        ELSE /\ fpc' = "read"
             /\ UNCHANGED <<camera, windows, result, exitPath>>
    /\ UNCHANGED <<threshold, pulled, cur, mainVars>>

FocusNext == OpenCamera \/ ReadFails \/ ReadFrame \/ WaitKey

FocusSpec == FocusInit /\ [][FocusNext]_vars

\* ==================================================================== claims

\* The scenario of C1: a 200x200 frame, margin 5, five detected blobs that all
\* pass the edge filter, four of radius 10 and one of radius 40 at the centre.
C1_Scenario ==
    /\ scan = "ok"
    /\ frame.w = 200 /\ frame.h = 200 /\ Margin(config) = 5
    /\ Len(keypoints) = 5 /\ Len(blobs) = 5
    /\ Cardinality({i \in 1..5 : keypoints[i].size = Px(20)}) = 4
    /\ \E i \in 1..5 : /\ keypoints[i].size = Px(80)
                       /\ keypoints[i].pt = <<Px(100), Px(100)>>

\* C1 (as claimed): in the scenario the radius-40 blob is flagged as a size
\* outlier (drawn red) and none of the four radius-10 blobs is.
C1_Radius40Flagged ==
    C1_Scenario =>
        \A i \in 1..5 : circles[i].color = IF blobs[i].size = Px(80) THEN "red" ELSE "green"

\* C1 (amended): in the scenario no blob is flagged, the radius-40 blob
\* included: its distance from the mean radius (|40 - 16| = 24) equals twice
\* the standard deviation (2 * 12) and the test is a strict "greater than".
C1_NoneFlaggedAtTwoStd ==
    C1_Scenario => \A i \in 1..5 : circles[i].color = "green"

C1_Witness ==
    /\ C1_Scenario
    /\ \E i \in 1..5 : circles[i].r = 40 /\ circles[i].x = 100 /\ circles[i].y = 100

\* C2: every candidate the edge filter retains satisfies, with the
\* detector-reported centre (x, y) and radius = size / 2,
\* x - radius >= margin, x + radius <= w - margin, y - radius >= margin and
\* y + radius <= h - margin (each inequality multiplied by 2 * Scale).
C2_RetainedInsideMargin ==
    scan = "ok" =>
        \A i \in 1..Len(blobs) :
            LET b == blobs[i]
                m == RadiusUnit * Margin(config)
            IN  /\ 2 * b.pt[1] - b.size >= m
                /\ 2 * b.pt[1] + b.size <= RadiusUnit * frame.w - m
                /\ 2 * b.pt[2] - b.size >= m
                /\ 2 * b.pt[2] + b.size <= RadiusUnit * frame.h - m

\* C3: the mean and standard deviation used by the size-outlier test are those
\* of the retained candidates only: each retained candidate gets the verdict
\* it gets when the candidates excluded by the edge filter are not there.
C3_StatsOverRetainedOnly ==
    scan = "ok" =>
        \A i \in 1..Len(blobs) :
            circles[i].color = Color(IntR(blobs[i]), Radii(blobs))

\* C4: when all detected candidates have the same radius, or there are none,
\* no candidate is flagged as a size outlier.
C4_IdenticalRadiiUnflagged ==
    (scan = "ok" /\ \A i, j \in 1..Len(keypoints) : keypoints[i].size = keypoints[j].size)
        => \A i \in 1..Len(circles) : circles[i].color = "green"

C4_Witness ==
    /\ scan = "ok"
    /\ Len(keypoints) >= 2 /\ Len(circles) >= 2
    /\ \A i, j \in 1..Len(keypoints) : keypoints[i].size = keypoints[j].size
    /\ keypoints[1].size % RadiusUnit # 0

\* C5: when wait_for_focus returns a frame, that frame is the last one pulled
\* (none is pulled after it), its score is above the threshold, and every
\* frame pulled before it had a score not above the threshold.
C5_FirstFocusedFrame ==
    (fpc = "done" /\ result # None) =>
        LET n == Len(pulled)
        IN  /\ n >= 1
            /\ result[1].id = n
            /\ result[1].lap = pulled[n].lap
            /\ pulled[n].lap > threshold
            /\ \A i \in 1..(n-1) : ~(pulled[i].lap > threshold)

C5_Witness ==
    /\ fpc = "done" /\ exitPath = "focused" /\ result # None
    /\ Len(pulled) >= 3

\* C6: a finished wait_for_focus ended in one of three outcomes its result
\* tells apart: a frame on success, the "no frame" result on source
\* exhaustion, and on cancellation a result that is not the "no frame" one.
C6_OutcomesDistinguished ==
    fpc = "done" =>
        /\ exitPath \in {"focused", "exhausted", "cancelled"}
        /\ exitPath = "focused"   => result # None
        /\ exitPath = "exhausted" => result = NoFrameResult
        /\ exitPath = "cancelled" => result # NoFrameResult

\* C7: with blob_min_area missing from the configuration no scan is ever
\* started and no detector parameters are built with a default in its place.
C7_MissingMinAreaNeverScanned ==
    MissingMinArea(config) => (scan = "none" /\ params = None)

\* C8: the frame wait_for_focus returns has the pixel content of the frame
\* pulled from the source (the core never draws on the frame it is given).
C8_ReturnedFrameUnmodified ==
    (fpc = "done" /\ result # None) => result[1] = pulled[Len(pulled)]

\* C9: foundCount is the number of detected candidates that pass the edge
\* filter, whatever their colour, and the difference is expectedCount (0 when
\* absent from the configuration) minus foundCount: 6 expected and 5 found
\* give 1, and more found than expected gives a negative difference.
C9_CountAndDifference ==
    scan = "ok" =>
        LET passed == {i \in 1..Len(keypoints) :
                          PassesEdge(keypoints[i], frame.w, frame.h, Margin(config))}
            expected == IF "expected_count" \in DOMAIN config
                        THEN config["expected_count"] ELSE 0
        IN  /\ found_count = Cardinality(passed)
            /\ Len(circles) = found_count
            /\ diff + found_count = expected
            /\ (expected = 6 /\ found_count = 5) => diff = 1
            /\ found_count > expected => diff < 0

C9_Witness ==
    /\ scan = "ok"
    /\ expected_count = 6 /\ found_count = 5 /\ diff = 1
    /\ \E i \in 1..Len(circles) : circles[i].color = "red"
    /\ Len(keypoints) > found_count

\* C10: whenever wait_for_focus has exited, the camera it opened is released
\* and the "Camera Focus" window is closed.
C10_ResourcesReleasedOnExit ==
    fpc = "done" => (~camera /\ "Camera Focus" \notin windows)

====
